---- MODULE Spec2Model ----
(***************************************************************************)
(* The two batch jobs of the repository: the Indexer                       *)
(* (create_search_index.py) and the Splitter (split_maamarim.py), and the  *)
(* glossary parsing both of them embed.                                    *)
(*                                                                         *)
(* A Python str is a sequence of one-character strings, a list is a        *)
(* sequence, a dict is a sequence of [k, v] items in insertion order, and  *)
(* a JSON object with optional fields is a record whose DOMAIN holds only  *)
(* the fields that are present.                                            *)
(***************************************************************************)
EXTENDS Integers, Sequences, FiniteSets, TLC

(***************************************************************************)
(* Bounds of the model.                                                    *)
(***************************************************************************)
MaxDocs == 3
MaxDocsPerChunk == 3
MaxGlossLen == 5

(***************************************************************************)
(* Python values.                                                          *)
(***************************************************************************)
\* what doc.get('id') returns for a document that has no "id"
None == <<"<None>">>
\* the default of doc.get('metadata', {}) and doc.get('content', {})
EmptyDict == <<>>
\* str.strip(), str.split() with no argument: whitespace
Whitespace == {" "}

\* d.get(key, default) on a JSON object
Get(d, key, default) == IF key \in DOMAIN d THEN d[key] ELSE default

RECURSIVE LStrip(_, _)
\* str.lstrip(chars)
LStrip(s, chars) ==
    IF s # <<>> /\ Head(s) \in chars THEN LStrip(Tail(s), chars) ELSE s

RECURSIVE RStrip(_, _)
\* str.rstrip(chars)
RStrip(s, chars) ==
    IF s # <<>> /\ s[Len(s)] \in chars
    THEN RStrip(SubSeq(s, 1, Len(s) - 1), chars)
    ELSE s

\* str.strip()
Strip(s) == RStrip(LStrip(s, Whitespace), Whitespace)

\* c in s
Contains(s, c) == \E i \in 1..Len(s) : s[i] = c

\* s.index(c), 1-based
IndexOf(s, c) == CHOOSE i \in 1..Len(s) : s[i] = c /\ \A j \in 1..(i - 1) : s[j] # c

RECURSIVE Split(_, _)
\* s.split(sep): every occurrence of sep separates
Split(s, sep) ==
    IF ~Contains(s, sep)
    THEN <<s>>
    ELSE LET i == IndexOf(s, sep)
         IN  <<SubSeq(s, 1, i - 1)>> \o Split(SubSeq(s, i + 1, Len(s)), sep)

\* s.split(sep, 1): only the first occurrence of sep separates
SplitOnce(s, sep) ==
    IF ~Contains(s, sep)
    THEN <<s>>
    ELSE LET i == IndexOf(s, sep)
         IN  <<SubSeq(s, 1, i - 1), SubSeq(s, i + 1, Len(s))>>

RECURSIVE WordEnd(_, _)
\* the length of the run of non-whitespace characters of s that starts at i+1
WordEnd(s, i) ==
    IF i < Len(s) /\ s[i + 1] \notin Whitespace THEN WordEnd(s, i + 1) ELSE i

RECURSIVE SplitWords(_)
\* s.split(): the whitespace-separated tokens, none of them empty
SplitWords(s) ==
    LET t == LStrip(s, Whitespace)
    IN  IF t = <<>>
        THEN <<>>
        ELSE LET n == WordEnd(t, 0)
             IN  <<SubSeq(t, 1, n)>> \o SplitWords(SubSeq(t, n + 1, Len(t)))

\* str.lower() of one character
LowerChar(c) == CASE c = "A" -> "a" [] c = "T" -> "t" [] OTHER -> c

RECURSIVE Lower(_)
\* str.lower()
Lower(s) == IF s = <<>> THEN <<>> ELSE <<LowerChar(Head(s))>> \o Lower(Tail(s))

RECURSIVE StripAll(_)
\* [e.strip() for e in parts]
StripAll(parts) ==
    IF parts = <<>> THEN <<>> ELSE <<Strip(Head(parts))>> \o StripAll(Tail(parts))

NonEmpty(e) == e # <<>>

(***************************************************************************)
(* dict and defaultdict(list), keys in insertion order.                    *)
(***************************************************************************)
HasKey(d, key) == \E i \in 1..Len(d) : d[i].k = key

KeyIndex(d, key) == CHOOSE i \in 1..Len(d) : d[i].k = key

\* d[key], for a key that is present
Lookup(d, key) == d[KeyIndex(d, key)].v

\* d.get(key, default)
LookupOr(d, key, default) == IF HasKey(d, key) THEN Lookup(d, key) ELSE default

\* the keys in insertion order
RECURSIVE Keys(_)
Keys(d) == IF d = <<>> THEN <<>> ELSE <<Head(d).k>> \o Keys(Tail(d))

\* d[key] = value: a new key goes last, a present key keeps its place
SetItem(d, key, value) ==
    IF HasKey(d, key)
    THEN [d EXCEPT ![KeyIndex(d, key)] = [k |-> key, v |-> value]]
    ELSE Append(d, [k |-> key, v |-> value])

\* defaultdict(list): d[key].append(x)
AppendTo(d, key, x) == SetItem(d, key, Append(LookupOr(d, key, <<>>), x))

\* x in lst
InList(lst, x) == \E i \in 1..Len(lst) : lst[i] = x

(***************************************************************************)
(* The glossary field, as the Indexer reads it                             *)
(* (create_search_index.py, lines 108-161).                                *)
(***************************************************************************)
\* lines 109-114: the candidate entries
IdxGlossaryEntries(glossary_text) ==
    IF glossary_text # <<>> /\ Strip(glossary_text) # <<>>
    THEN SelectSeq(StripAll(Split(LStrip(glossary_text, {"|"}), ";")), NonEmpty)
    ELSE <<>>

\* line 119: entry.split(':', 1)[0].strip()
IdxHebrewPart(entry) == Strip(SplitOnce(entry, ":")[1])

\* line 120: entry.split(':', 1)[1].strip()
IdxEnglishPart(entry) == Strip(SplitOnce(entry, ":")[2])

\* lines 123-127: hebrew_part.split('(')[0].strip(), or hebrew_part
IdxHebrewTerm(hebrew_part) ==
    IF Contains(hebrew_part, "(")
    THEN Strip(Split(hebrew_part, "(")[1])
    ELSE hebrew_part

\* lines 123-128: hebrew_part.split('(')[1].rstrip(')').strip(), or ""
IdxTransliteration(hebrew_part) ==
    IF Contains(hebrew_part, "(")
    THEN Strip(RStrip(Split(hebrew_part, "(")[2], {")"}))
    ELSE <<>>

\* line 155: the words that are never indexed
StopWords ==
    { <<"t", "h", "e">>, <<"a", "n", "d">>, <<"o", "f">>, <<"i", "n">>,
      <<"t", "o">>, <<"a">>, <<"a", "n">> }

\* line 151: english_part.split()[:3]
KeywordWindow == 3
\* line 153: len(word) > 3
KeywordMinLen == 3

RECURSIVE IdxKeywordsOf(_)
\* lines 152-155: the keys the words of english_words give
IdxKeywordsOf(english_words) ==
    IF english_words = <<>>
    THEN <<>>
    ELSE LET word == Head(english_words)
             word_lower == RStrip(Lower(word), {".", ",", ";", ":"})
         IN  (IF Len(word) > KeywordMinLen /\ word_lower \notin StopWords
              THEN <<word_lower>>
              ELSE <<>>) \o IdxKeywordsOf(Tail(english_words))

\* lines 149-155
IdxKeywords(english_part) ==
    IF english_part # <<>>
    THEN LET words == SplitWords(english_part)
         IN  IdxKeywordsOf(SubSeq(words, 1, IF Len(words) < KeywordWindow
                                            THEN Len(words) ELSE KeywordWindow))
    ELSE <<>>

RECURSIVE IdxParseEntries(_)
\* lines 116-128: what each entry that holds ':' parses to
IdxParseEntries(entries) ==
    IF entries = <<>>
    THEN <<>>
    ELSE LET entry == Head(entries)
         IN  (IF Contains(entry, ":")
              THEN << [hebrew_term |-> IdxHebrewTerm(IdxHebrewPart(entry)),
                       transliteration |-> IdxTransliteration(IdxHebrewPart(entry)),
                       definition |-> IdxEnglishPart(entry)] >>
              ELSE <<>>) \o IdxParseEntries(Tail(entries))

\* lines 108-128
IdxParseGlossary(glossary_text) == IdxParseEntries(IdxGlossaryEntries(glossary_text))

(***************************************************************************)
(* The glossary field, as the Splitter reads it                            *)
(* (split_maamarim.py, lines 119-132).                                     *)
(***************************************************************************)
\* lines 120-122
SplGlossaryEntries(glossary_text) ==
    IF glossary_text # <<>> /\ Strip(glossary_text) # <<>>
    THEN SelectSeq(StripAll(Split(LStrip(glossary_text, {"|"}), ";")), NonEmpty)
    ELSE <<>>

\* line 126
SplHebrewPart(entry) == Strip(SplitOnce(entry, ":")[1])

\* lines 127-131
SplHebrewTerm(hebrew_part) ==
    IF Contains(hebrew_part, "(")
    THEN Strip(Split(hebrew_part, "(")[1])
    ELSE hebrew_part

\* a transliteration that is everything behind the first '('
SplTransliterationOnce(hebrew_part) ==
    IF Contains(hebrew_part, "(")
    THEN Strip(RStrip(SplitOnce(hebrew_part, "(")[2], {")"}))
    ELSE <<>>

\* lines 127-132
SplTransliteration(hebrew_part) ==
    IF Contains(hebrew_part, "(")
    THEN Strip(RStrip(Split(hebrew_part, "(")[2], {")"}))
    ELSE <<>>

RECURSIVE SplParseEntries(_)
\* lines 124-132
SplParseEntries(entries) ==
    IF entries = <<>>
    THEN <<>>
    ELSE LET entry == Head(entries)
         IN  (IF Contains(entry, ":")
              THEN << [hebrew_term |-> SplHebrewTerm(SplHebrewPart(entry)),
                       transliteration |-> SplTransliteration(SplHebrewPart(entry))] >>
              ELSE <<>>) \o SplParseEntries(Tail(entries))

\* lines 119-132
SplParseGlossary(glossary_text) == SplParseEntries(SplGlossaryEntries(glossary_text))

(***************************************************************************)
(* The input file maamarim_structured.json.                                *)
(***************************************************************************)
\* a well-formed document: every field present, a glossary with a leading
\* '|', a stop word and an entry without ':'
DocA ==
    [id |-> <<"a">>, reference |-> <<"R">>,
     metadata |->
        [hebrew_date |-> <<"h">>, gregorian_date |-> <<"g">>,
         opening_phrase |-> <<"o">>,
         topics |-> << <<"t">>, <<"u">> >>,
         key_concepts |-> << <<"c">> >>,
         biblical_references |-> << <<"r">> >>,
         talmudic_references |-> << <<"r">> >>,
         chassidic_references |-> << <<"q">> >>,
         word_count |-> 5, chunk_count |-> 2],
     content |->
        [main_text |-> <<"x", " ", "y">>,
         main_text_chunks |-> << <<"x">>, <<"y">> >>,
         glossary |-> <<"|", "k", "(", "m", ")", ":", "T", "h", "e", ".", " ",
                        "A", "a", "a", "a", ";", "n">>]]

\* empty and blank values, a repeated topic, zero counts, a glossary entry
\* with two '(' and a definition of punctuation only
DocB ==
    [id |-> <<"b">>, reference |-> <<>>,
     metadata |->
        [hebrew_date |-> <<>>, gregorian_date |-> <<"g">>,
         opening_phrase |-> <<" ">>,
         topics |-> << <<"t">>, <<"t">>, <<" ">> >>,
         key_concepts |-> << <<"e">>, <<"d">>, <<" ">> >>,
         biblical_references |-> << <<"r">>, <<>> >>,
         word_count |-> 0, chunk_count |-> 0],
     content |->
        [main_text |-> <<" ", "x", " ", " ", "y", " ", "z">>,
         main_text_chunks |-> << <<"x">> >>,
         glossary |-> <<"k", "(", "m", "(", "n", ":", " ", ":", ":", ":", ":">>]]

\* no id, no metadata, no content
DocC == [reference |-> <<"R">>]

\* the id of DocA again; counts and texts absent, a blank glossary
DocD ==
    [id |-> <<"a">>,
     metadata |->
        [hebrew_date |-> <<"h">>,
         topics |-> << <<"u">> >>,
         key_concepts |-> << <<"e">> >>],
     content |-> [glossary |-> <<" ">>]]

\* an id with a path separator, no topics, an empty main_text
DocE ==
    [id |-> <<"a", "/", "b">>, reference |-> <<"R">>,
     metadata |->
        [gregorian_date |-> <<"h">>, opening_phrase |-> <<"o">>,
         key_concepts |-> << <<"c">> >>,
         chassidic_references |-> << <<"q">>, <<"r">> >>,
         word_count |-> 7],
     content |->
        [main_text |-> <<>>,
         main_text_chunks |-> << <<"x">>, <<"y">>, <<"z">> >>,
         glossary |-> <<"k", ":", "z">>]]

DocPool == {DocA, DocB, DocC, DocD, DocE}

DocSeqs == UNION {[1..n -> DocPool] : n \in 0..MaxDocs}

CollectionMetadata == [date_range |-> <<"5", "7">>]

\* what json.load returns: the top-level object, with or without
\* collection_metadata
InputData ==
    {[documents |-> ds, collection_metadata |-> CollectionMetadata] : ds \in DocSeqs}
    \cup {[documents |-> ds] : ds \in DocSeqs}

\* the input file: readable JSON, absent, or not JSON
InputStates == {"ok", "missing", "invalid"}

VARIABLES
    input_state,     \* what open()/json.load() of the input file will meet
    data,            \* the parsed input file
    \* ---- Splitter (split_maamarim_file)
    docs_per_chunk,  \* the parameter
    spc,             \* the Splitter's position
    chunk_num,       \* the loop variable of line 46
    doc_pos,         \* how many documents of the chunk the inner loop has done
    chunk_files,     \* maamarim_chunks/: chunk number -> chunk_data written
    doc_files,       \* maamarim_docs/: safe_doc_id -> doc_data written
    master_index,    \* the dict of line 32
    master_file,     \* maamarim_master_index.json: <<>> or <<the index saved>>
    \* ---- Indexer (create_search_indexes)
    ipc,                   \* the Indexer's position
    doc_i,                 \* how many documents the loop in progress has done
    document_summary,      \* line 29
    topic_index,           \* line 21
    date_index,            \* line 22
    concept_index,         \* line 23
    reference_index,       \* line 24
    opening_phrase_index,  \* line 25
    glossary_index,        \* line 26
    index_file,            \* maamarim_search_index.json: <<>> or <<indexes>>
    quick_ref,             \* maamarim_quick_reference.txt: what is written
    sorted_topics,         \* line 273
    topic_to_concept,      \* line 276
    \* ---- glossary parsing on its own
    glossary_text,   \* a glossary string
    idx_parsed,      \* <<>> or <<what the Indexer parses it to>>
    spl_parsed       \* <<>> or <<what the Splitter parses it to>>

split_vars ==
    <<docs_per_chunk, spc, chunk_num, doc_pos, chunk_files, doc_files,
      master_index, master_file>>

index_vars ==
    <<ipc, doc_i, document_summary, topic_index, date_index, concept_index,
      reference_index, opening_phrase_index, glossary_index, index_file, quick_ref,
      sorted_topics, topic_to_concept>>

gloss_vars == <<glossary_text, idx_parsed, spl_parsed>>

vars == <<input_state, data, split_vars, index_vars, gloss_vars>>

(***************************************************************************)
(* The Splitter: split_maamarim_file(input_file, docs_per_chunk).          *)
(***************************************************************************)
\* line 21
SplDocuments == Get(data, "documents", <<>>)

\* line 22
SplCollectionMetadata == Get(data, "collection_metadata", EmptyDict)

\* a chunk count that rounds down: len(documents) // docs_per_chunk
NumChunksFloor(n, d) == n \div d

\* line 44: (len(documents) + docs_per_chunk - 1) // docs_per_chunk
NumChunksOf(n, d) == (n + d - 1) \div d

num_chunks == NumChunksOf(Len(SplDocuments), docs_per_chunk)

Min(a, b) == IF a < b THEN a ELSE b

\* line 47
StartIdx(c, d) == c * d

\* a slice that ends one document early
EndIdxShort(c, d, n) == Min(StartIdx(c, d) + d - 1, n)

\* line 48
EndIdx(c, d, n) == Min(StartIdx(c, d) + d, n)

\* line 49: documents[start_idx:end_idx]
ChunkDocsOf(docs, c, d) == SubSeq(docs, StartIdx(c, d) + 1, EndIdx(c, d, Len(docs)))

chunk_docs == ChunkDocsOf(SplDocuments, chunk_num, docs_per_chunk)

RECURSIVE DocIds(_)
\* lines 59, 71: [doc.get('id') for doc in chunk_docs]
DocIds(docs) ==
    IF docs = <<>> THEN <<>> ELSE <<Get(Head(docs), "id", None)>> \o DocIds(Tail(docs))

\* an append that does not look whether the chunk number is there
AddChunkAlways(index, key, chunk_number) ==
    SetItem(index, key, Append(LookupOr(index, key, <<>>), chunk_number))

\* lines 83-86 and the like: the facet's list is created when missing, and
\* receives the chunk number only if it does not hold it
AddChunk(index, key, chunk_number) ==
    LET created == IF ~HasKey(index, key) THEN SetItem(index, key, <<>>) ELSE index
    IN  IF ~InList(Lookup(created, key), chunk_number)
        THEN SetItem(created, key, Append(Lookup(created, key), chunk_number))
        ELSE created

RECURSIVE AddChunkEach(_, _, _)
\* lines 82-86, 90-94: for key in keys
AddChunkEach(index, keys, chunk_number) ==
    IF keys = <<>>
    THEN index
    ELSE AddChunkEach(AddChunk(index, Head(keys), chunk_number), Tail(keys), chunk_number)

\* lines 97-108
MapDates(index, doc, chunk_number) ==
    LET hebrew_date == Get(Get(doc, "metadata", EmptyDict), "hebrew_date", <<>>)
        gregorian_date == Get(Get(doc, "metadata", EmptyDict), "gregorian_date", <<>>)
        h == IF hebrew_date # <<>> THEN AddChunk(index, hebrew_date, chunk_number) ELSE index
    IN  IF gregorian_date # <<>> THEN AddChunk(h, gregorian_date, chunk_number) ELSE h

\* lines 111-116
MapOpeningPhrase(index, doc, chunk_number) ==
    LET opening_phrase == Get(Get(doc, "metadata", EmptyDict), "opening_phrase", <<>>)
    IN  IF opening_phrase # <<>> /\ Strip(opening_phrase) # <<>>
        THEN AddChunk(index, opening_phrase, chunk_number)
        ELSE index

RECURSIVE MapGlossaryTerms(_, _, _)
\* lines 134-146, for the parsed entries in order
MapGlossaryTerms(index, parsed, chunk_number) ==
    IF parsed = <<>>
    THEN index
    ELSE LET e == Head(parsed)
             h == IF e.hebrew_term # <<>>
                  THEN AddChunk(index, e.hebrew_term, chunk_number)
                  ELSE index
             t == IF e.transliteration # <<>>
                  THEN AddChunk(h, e.transliteration, chunk_number)
                  ELSE h
         IN  MapGlossaryTerms(t, Tail(parsed), chunk_number)

\* a record that keeps the first chunk of an id
RecordDocIdOnce(index, doc_id, chunk_number) ==
    IF HasKey(index, doc_id) THEN index ELSE SetItem(index, doc_id, chunk_number)

\* line 78: master_index["doc_id_to_chunk"][doc_id] = chunk_num + 1
RecordDocId(index, doc_id, chunk_number) == SetItem(index, doc_id, chunk_number)

\* lines 77-146: one document's entries in the master index
MapDocumentInto(mi, doc, chunk_number) ==
    LET metadata == Get(doc, "metadata", EmptyDict)
        glossary == Get(Get(doc, "content", EmptyDict), "glossary", <<>>)
    IN  [mi EXCEPT
            !.doc_id_to_chunk = RecordDocId(@, Get(doc, "id", None), chunk_number),
            !.topic_to_chunks = AddChunkEach(@, Get(metadata, "topics", <<>>), chunk_number),
            !.concept_to_chunks =
                AddChunkEach(@, Get(metadata, "key_concepts", <<>>), chunk_number),
            !.date_to_chunks = MapDates(@, doc, chunk_number),
            !.opening_phrase_to_chunks = MapOpeningPhrase(@, doc, chunk_number),
            !.glossary_term_to_chunks =
                MapGlossaryTerms(@, SplParseGlossary(glossary), chunk_number)]

\* line 152: one character of doc_id.replace('/', '_').replace('\\', '_')
SafeChar(c) == IF c \in {"/", "\\"} THEN "_" ELSE c

RECURSIVE SafeDocId(_)
\* line 152
SafeDocId(doc_id) ==
    IF doc_id = <<>> THEN <<>> ELSE <<SafeChar(Head(doc_id))>> \o SafeDocId(Tail(doc_id))

\* lines 32-41
EmptyMasterIndex(cm) ==
    [collection_metadata |-> cm, chunk_info |-> <<>>, topic_to_chunks |-> <<>>,
     concept_to_chunks |-> <<>>, doc_id_to_chunk |-> <<>>, date_to_chunks |-> <<>>,
     opening_phrase_to_chunks |-> <<>>, glossary_term_to_chunks |-> <<>>]

SplitIdle ==
    /\ docs_per_chunk = 1
    /\ spc = "idle"
    /\ chunk_num = 0
    /\ doc_pos = 0
    /\ chunk_files = <<>>
    /\ doc_files = <<>>
    /\ master_index = EmptyMasterIndex(EmptyDict)
    /\ master_file = <<>>

IndexIdle ==
    /\ ipc = "idle"
    /\ doc_i = 0
    /\ document_summary = <<>>
    /\ topic_index = <<>>
    /\ date_index = <<>>
    /\ concept_index = <<>>
    /\ reference_index = <<>>
    /\ opening_phrase_index = <<>>
    /\ glossary_index = <<>>
    /\ index_file = <<>>
    /\ quick_ref = <<>>
    /\ sorted_topics = <<>>
    /\ topic_to_concept = <<>>

GlossIdle ==
    /\ glossary_text = <<>>
    /\ idx_parsed = <<>>
    /\ spl_parsed = <<>>

InputInit ==
    /\ input_state \in InputStates
    /\ data \in IF input_state = "ok" THEN InputData ELSE {EmptyDict}

SplitInit ==
    /\ InputInit
    /\ docs_per_chunk \in 1..MaxDocsPerChunk
    /\ spc = "load"
    /\ chunk_num = 0
    /\ doc_pos = 0
    /\ chunk_files = <<>>
    /\ doc_files = <<>>
    /\ master_index = EmptyMasterIndex(EmptyDict)
    /\ master_file = <<>>
    /\ GlossIdle
    /\ IndexIdle

\* lines 18-19: a missing or unparsable file is an unhandled exception
SplLoadFails ==
    /\ spc = "load"
    /\ input_state # "ok"
    /\ spc' = "aborted"
    /\ UNCHANGED <<input_state, data, docs_per_chunk, chunk_num, doc_pos, chunk_files,
                   doc_files, master_index, master_file, gloss_vars, index_vars>>

\* lines 18-44: load, create the directories, the empty master index
SplLoad ==
    /\ spc = "load"
    /\ input_state = "ok"
    /\ master_index' = EmptyMasterIndex(SplCollectionMetadata)
    /\ chunk_num' = 0
    /\ spc' = IF num_chunks > 0 THEN "chunk" ELSE "save"
    /\ UNCHANGED <<input_state, data, docs_per_chunk, doc_pos, chunk_files, doc_files,
                   master_file, gloss_vars, index_vars>>

\* lines 47-73: write the chunk file and record it in the master index
SplWriteChunk ==
    /\ spc = "chunk"
    /\ LET chunk_info ==
               [chunk_number |-> chunk_num + 1,
                total_chunks |-> num_chunks,
                documents_in_chunk |-> Len(chunk_docs),
                document_ids |-> DocIds(chunk_docs)]
           chunk_data ==
               [collection_metadata |-> SplCollectionMetadata,
                chunk_info |-> chunk_info,
                documents |-> chunk_docs]
       IN  /\ chunk_files' = SetItem(chunk_files, chunk_num + 1, chunk_data)
           /\ master_index' =
                  [master_index EXCEPT
                      !.chunk_info =
                          SetItem(@, chunk_num + 1,
                                  [file |-> chunk_num + 1,
                                   document_ids |-> DocIds(chunk_docs),
                                   document_count |-> Len(chunk_docs)])]
    /\ doc_pos' = 0
    /\ spc' = "map"
    /\ UNCHANGED <<input_state, data, docs_per_chunk, chunk_num, doc_files, master_file,
                   gloss_vars, index_vars>>

\* lines 76-146: the next document of the chunk enters the master index
SplMapDocument ==
    /\ spc = "map"
    /\ doc_pos < Len(chunk_docs)
    /\ master_index' = MapDocumentInto(master_index, chunk_docs[doc_pos + 1], chunk_num + 1)
    /\ doc_pos' = doc_pos + 1
    /\ UNCHANGED <<input_state, data, docs_per_chunk, spc, chunk_num, chunk_files,
                   doc_files, master_file, gloss_vars, index_vars>>

\* line 76 exhausted, line 149 begins
SplMapDone ==
    /\ spc = "map"
    /\ doc_pos = Len(chunk_docs)
    /\ doc_pos' = 0
    /\ spc' = "docs"
    /\ UNCHANGED <<input_state, data, docs_per_chunk, chunk_num, chunk_files, doc_files,
                   master_index, master_file, gloss_vars, index_vars>>

\* lines 149-161: the next document's own file; None has no .replace, so a
\* document without "id" raises AttributeError at line 152
SplWriteDocFile ==
    /\ spc = "docs"
    /\ doc_pos < Len(chunk_docs)
    /\ LET doc == chunk_docs[doc_pos + 1]
           doc_id == Get(doc, "id", None)
       IN  IF doc_id = None
           THEN /\ spc' = "aborted"
                /\ UNCHANGED <<doc_pos, doc_files>>
           ELSE /\ doc_files' =
                       SetItem(doc_files, SafeDocId(doc_id),
                               [collection_metadata |-> SplCollectionMetadata,
                                document |-> doc])
                /\ doc_pos' = doc_pos + 1
                /\ UNCHANGED spc
    /\ UNCHANGED <<input_state, data, docs_per_chunk, chunk_num, chunk_files,
                   master_index, master_file, gloss_vars, index_vars>>

\* line 149 exhausted: the next round of line 46, or line 164
SplNextChunk ==
    /\ spc = "docs"
    /\ doc_pos = Len(chunk_docs)
    /\ chunk_num' = chunk_num + 1
    /\ doc_pos' = 0
    /\ spc' = IF chunk_num + 1 < num_chunks THEN "chunk" ELSE "save"
    /\ UNCHANGED <<input_state, data, docs_per_chunk, chunk_files, doc_files,
                   master_index, master_file, gloss_vars, index_vars>>

\* lines 164-166
SplSaveMasterIndex ==
    /\ spc = "save"
    /\ master_file' = <<master_index>>
    /\ spc' = "done"
    /\ UNCHANGED <<input_state, data, docs_per_chunk, chunk_num, doc_pos, chunk_files,
                   doc_files, master_index, gloss_vars, index_vars>>

SplitNext ==
    \/ SplLoadFails
    \/ SplLoad
    \/ SplWriteChunk
    \/ SplMapDocument
    \/ SplMapDone
    \/ SplWriteDocFile
    \/ SplNextChunk
    \/ SplSaveMasterIndex

SplitSpec == SplitInit /\ [][SplitNext]_vars

(***************************************************************************)
(* Properties of the Splitter.                                             *)
(***************************************************************************)
\* the Splitter has left the loop of line 46 normally
SplLoopOver == spc \in {"save", "done"}

\* the chunk, 1-based, of the document at position p, 1-based
ChunkOfPosition(p) == ((p - 1) \div docs_per_chunk) + 1

\* the least k with k * d >= n
Ceiling(n, d) == CHOOSE k \in 0..n : k * d >= n /\ \A j \in 0..(k - 1) : j * d < n

RECURSIVE ConcatDocumentIds(_)
\* the document_ids lists of the chunk files, one after the other
ConcatDocumentIds(files) ==
    IF files = <<>>
    THEN <<>>
    ELSE Head(files).v.chunk_info.document_ids \o ConcatDocumentIds(Tail(files))

\* C1: the chunk files are written in chunk-number order 1, 2, ...; at every
\* point the document_ids lists of the chunk files written so far, one after
\* the other, are the ids of the input documents position for position, up
\* to the documents written; once the loop is over they are the ids of all
\* the input documents: no position is skipped, none is in two chunks.
C1_Partition ==
    LET ids == ConcatDocumentIds(chunk_files)
        all == DocIds(SplDocuments)
    IN  /\ \A i \in 1..Len(chunk_files) :
              /\ chunk_files[i].k = i
              /\ chunk_files[i].v.chunk_info.chunk_number = i
        /\ Len(ids) <= Len(all)
        /\ ids = SubSeq(all, 1, Len(ids))
        /\ SplLoopOver => ids = all

\* a finished run of three documents in chunks of two: two chunks, the last
\* one smaller
C1_Witness ==
    /\ spc = "done"
    /\ Len(SplDocuments) = 3
    /\ docs_per_chunk = 2
    /\ Len(chunk_files) = 2
    /\ Len(chunk_files[2].v.chunk_info.document_ids) = 1

\* C2: every chunk file written carries total_chunks = ceiling(n / d) and
\* its own number; every chunk but the last holds exactly d documents and
\* the last between 1 and d; once the loop is over exactly ceiling(n / d)
\* chunk files exist.
C2_ChunkCount ==
    LET n == Len(SplDocuments)
        d == docs_per_chunk
        total == Ceiling(n, d)
    IN  /\ Len(chunk_files) <= total
        /\ \A i \in 1..Len(chunk_files) :
              LET info == chunk_files[i].v.chunk_info
              IN  /\ info.total_chunks = total
                  /\ info.documents_in_chunk = Len(info.document_ids)
                  /\ i < total => info.documents_in_chunk = d
                  /\ i = total => info.documents_in_chunk \in 1..d
        /\ SplLoopOver => Len(chunk_files) = total

\* a finished run whose last chunk is smaller than the others
C2_Witness ==
    /\ spc = "done"
    /\ Len(chunk_files) >= 2
    /\ chunk_files[1].v.chunk_info.documents_in_chunk = docs_per_chunk
    /\ chunk_files[Len(chunk_files)].v.chunk_info.documents_in_chunk < docs_per_chunk

\* C5: a run whose input file loads never aborts, whatever fields its
\* documents lack.
C5_MissingFieldNeverAborts == input_state = "ok" => spc # "aborted"

\* the five facet dicts of the master index
FacetNames ==
    {"topic_to_chunks", "concept_to_chunks", "date_to_chunks",
     "opening_phrase_to_chunks", "glossary_term_to_chunks"}

\* the values of facet f that document doc carries
Carries(f, doc) ==
    LET metadata == Get(doc, "metadata", EmptyDict)
        glossary == Get(Get(doc, "content", EmptyDict), "glossary", <<>>)
        parsed == SplParseGlossary(glossary)
        opening == Get(metadata, "opening_phrase", <<>>)
    IN  CASE f = "topic_to_chunks" ->
                {Get(metadata, "topics", <<>>)[i] :
                    i \in 1..Len(Get(metadata, "topics", <<>>))}
          [] f = "concept_to_chunks" ->
                {Get(metadata, "key_concepts", <<>>)[i] :
                    i \in 1..Len(Get(metadata, "key_concepts", <<>>))}
          [] f = "date_to_chunks" ->
                {Get(metadata, "hebrew_date", <<>>),
                 Get(metadata, "gregorian_date", <<>>)} \ {<<>>}
          [] f = "opening_phrase_to_chunks" ->
                IF Strip(opening) # <<>> THEN {opening} ELSE {}
          [] f = "glossary_term_to_chunks" ->
                ({parsed[i].hebrew_term : i \in 1..Len(parsed)}
                 \cup {parsed[i].transliteration : i \in 1..Len(parsed)}) \ {<<>>}

\* the chunks whose documents carry value v of facet f
ChunksCarrying(f, v) ==
    {ChunkOfPosition(p) : p \in {q \in 1..Len(SplDocuments) : v \in Carries(f, SplDocuments[q])}}

\* C6: at every point every list of the five facet dicts is strictly
\* increasing (so no chunk number twice) and holds only chunks one of whose
\* documents carries the value; once the loop is over chunk c is in the list
\* of value v exactly when a document of chunk c carries v, and that is what
\* the master index file holds.
C6_FacetLists ==
    /\ \A f \in FacetNames :
          LET index == master_index[f]
          IN  /\ \A i \in 1..Len(index) :
                    LET lst == index[i].v
                    IN  /\ \A a, b \in 1..Len(lst) : a < b => lst[a] < lst[b]
                        /\ \A a \in 1..Len(lst) : lst[a] \in ChunksCarrying(f, index[i].k)
              /\ SplLoopOver =>
                    \A p \in 1..Len(SplDocuments) :
                        \A v \in Carries(f, SplDocuments[p]) :
                            /\ HasKey(index, v)
                            /\ InList(Lookup(index, v), ChunkOfPosition(p))
    /\ spc = "done" => master_file = <<master_index>>

\* a finished run in which topic u is in three documents of chunk 1 and its
\* list is [1]
C6_Witness ==
    /\ spc = "done"
    /\ docs_per_chunk = 3
    /\ Len(SplDocuments) = 3
    /\ \A p \in 1..3 : <<"u">> \in Carries("topic_to_chunks", SplDocuments[p])
    /\ Lookup(master_index.topic_to_chunks, <<"u">>) = <<1>>

\* C7 as claimed: when the Splitter finishes, doc_id_to_chunk maps the id of
\* every document to the chunk that document is in.
C7_DocIdToOwnChunk ==
    spc = "done" =>
        \A p \in 1..Len(SplDocuments) :
            /\ HasKey(master_index.doc_id_to_chunk, SplDocuments[p].id)
            /\ Lookup(master_index.doc_id_to_chunk, SplDocuments[p].id) = ChunkOfPosition(p)

\* the chunks that hold a document with this id
ChunksOfId(doc_id) ==
    {ChunkOfPosition(q) : q \in {r \in 1..Len(SplDocuments) : SplDocuments[r].id = doc_id}}

Max(S) == CHOOSE x \in S : \A y \in S : y <= x

\* C7 amended: when the Splitter finishes, doc_id_to_chunk has one entry per
\* distinct id, and maps the id of every document to the last chunk that
\* holds a document with that id, a chunk whose document_ids list in
\* chunk_info holds the id; that is the document's own chunk whenever no
\* later chunk holds a document with the same id.
C7_DocIdToLastChunk ==
    spc = "done" =>
        /\ \A p \in 1..Len(SplDocuments) :
              LET doc_id == SplDocuments[p].id
                  index == master_index.doc_id_to_chunk
              IN  /\ HasKey(index, doc_id)
                  /\ Lookup(index, doc_id) = Max(ChunksOfId(doc_id))
                  /\ InList(Lookup(master_index.chunk_info, Lookup(index, doc_id)).document_ids,
                            doc_id)
                  /\ ChunksOfId(doc_id) = {ChunkOfPosition(p)}
                        => Lookup(index, doc_id) = ChunkOfPosition(p)
        /\ \A i, j \in 1..Len(master_index.doc_id_to_chunk) :
              master_index.doc_id_to_chunk[i].k = master_index.doc_id_to_chunk[j].k => i = j

\* a finished run with the same id in two chunks
C7_Witness ==
    /\ spc = "done"
    /\ \E p, q \in 1..Len(SplDocuments) :
          /\ SplDocuments[p].id = SplDocuments[q].id
          /\ ChunkOfPosition(p) < ChunkOfPosition(q)

(***************************************************************************)
(* Glossary parsing on its own: every glossary string of at most           *)
(* MaxGlossLen characters, parsed by the Indexer's code and by the         *)
(* Splitter's.                                                             *)
(***************************************************************************)
GlossAlphabet == {"x", " ", "(", ")", ":", ";", "|"}

GlossStrings == UNION {[1..n -> GlossAlphabet] : n \in 0..MaxGlossLen}

InputIdle ==
    /\ input_state = "ok"
    /\ data = EmptyDict

GlossInit ==
    /\ glossary_text \in GlossStrings
    /\ idx_parsed = <<>>
    /\ spl_parsed = <<>>
    /\ InputIdle
    /\ SplitIdle
    /\ IndexIdle

\* create_search_index.py, lines 108-128, on glossary_text
GlossIndexerParse ==
    /\ idx_parsed = <<>>
    /\ idx_parsed' = <<IdxParseGlossary(glossary_text)>>
    /\ UNCHANGED <<glossary_text, spl_parsed, input_state, data, split_vars, index_vars>>

\* split_maamarim.py, lines 119-132, on glossary_text
GlossSplitterParse ==
    /\ spl_parsed = <<>>
    /\ spl_parsed' = <<SplParseGlossary(glossary_text)>>
    /\ UNCHANGED <<glossary_text, idx_parsed, input_state, data, split_vars, index_vars>>

GlossNext ==
    \/ GlossIndexerParse
    \/ GlossSplitterParse

GlossSpec == GlossInit /\ [][GlossNext]_vars

(***************************************************************************)
(* Properties of the glossary parsing.                                     *)
(***************************************************************************)
\* the entries of a glossary string: leading '|' stripped, split on ';',
\* trimmed, the empty ones left out
ClaimedEntries(g) == SelectSeq(StripAll(Split(LStrip(g, {"|"}), ";")), NonEmpty)

\* the pair an entry with ':' yields when its Hebrew part is split once on '('
ClaimedPair(entry) ==
    LET hebrew_part == Strip(SplitOnce(entry, ":")[1])
    IN  IF Contains(hebrew_part, "(")
        THEN [hebrew_term |-> Strip(SplitOnce(hebrew_part, "(")[1]),
              transliteration |-> Strip(RStrip(SplitOnce(hebrew_part, "(")[2], {")"}))]
        ELSE [hebrew_term |-> hebrew_part, transliteration |-> <<>>]

RECURSIVE ClaimedPairsOf(_)
ClaimedPairsOf(entries) ==
    IF entries = <<>>
    THEN <<>>
    ELSE (IF Contains(Head(entries), ":") THEN <<ClaimedPair(Head(entries))>> ELSE <<>>)
         \o ClaimedPairsOf(Tail(entries))

ClaimedPairs(g) == ClaimedPairsOf(ClaimedEntries(g))

RECURSIVE PairsOf(_)
\* the (hebrew_term, transliteration) pairs of parsed records
PairsOf(parsed) ==
    IF parsed = <<>>
    THEN <<>>
    ELSE <<[hebrew_term |-> Head(parsed).hebrew_term,
            transliteration |-> Head(parsed).transliteration]>> \o PairsOf(Tail(parsed))

\* C9: for every glossary string the Indexer and the Splitter both derive,
\* entry by entry, the pairs the claim describes: entries without ':'
\* skipped, hebrew_term the trimmed text before the first '(' of the part
\* before the first ':', transliteration all the text after that first '('
\* with trailing ')' stripped and trimmed.
C9_GlossaryAsClaimed ==
    /\ idx_parsed # <<>> => PairsOf(idx_parsed[1]) = ClaimedPairs(glossary_text)
    /\ spl_parsed # <<>> => PairsOf(spl_parsed[1]) = ClaimedPairs(glossary_text)

\* the text of s up to its first '(', or all of s
UpToParen(s) == IF Contains(s, "(") THEN SubSeq(s, 1, IndexOf(s, "(") - 1) ELSE s

\* the text of s behind its first '('
BehindParen(s) == SubSeq(s, IndexOf(s, "(") + 1, Len(s))

\* the pair an entry with ':' yields when the transliteration ends at the
\* second '(' of its Hebrew part
BetweenParensPair(entry) ==
    LET hebrew_part == Strip(SubSeq(entry, 1, IndexOf(entry, ":") - 1))
    IN  IF Contains(hebrew_part, "(")
        THEN [hebrew_term |-> Strip(UpToParen(hebrew_part)),
              transliteration |->
                  Strip(RStrip(UpToParen(BehindParen(hebrew_part)), {")"}))]
        ELSE [hebrew_term |-> hebrew_part, transliteration |-> <<>>]

RECURSIVE BetweenParensPairsOf(_)
BetweenParensPairsOf(entries) ==
    IF entries = <<>>
    THEN <<>>
    ELSE (IF Contains(Head(entries), ":") THEN <<BetweenParensPair(Head(entries))>> ELSE <<>>)
         \o BetweenParensPairsOf(Tail(entries))

\* C9 amended: for every glossary string, after stripping leading '|' and
\* splitting on ';', each non-empty entry without ':' is skipped and each
\* entry with ':' yields, whatever its siblings, hebrew_term = the trimmed
\* text before the first '(' of the part before the first ':' and
\* transliteration = the text between that first '(' and the next '(' of
\* that part (to its end when there is no second '('), trailing ')' stripped
\* and then trimmed, or the whole part and an empty transliteration when
\* there is no '('; the Indexer and the Splitter derive the same pairs.
C9_GlossaryParsing ==
    LET expected == BetweenParensPairsOf(ClaimedEntries(glossary_text))
    IN  /\ idx_parsed # <<>> => PairsOf(idx_parsed[1]) = expected
        /\ spl_parsed # <<>> => spl_parsed[1] = expected

\* both have parsed a string with a leading '|' whose Hebrew part holds two
\* '('
C9_Witness ==
    /\ glossary_text = <<"|", "(", "x", "(", ":">>
    /\ idx_parsed # <<>>
    /\ spl_parsed = <<<<[hebrew_term |-> <<>>, transliteration |-> <<"x">>]>>>>

(***************************************************************************)
(* The Indexer: create_search_indexes(structured_file).                    *)
(***************************************************************************)
\* line 17
IdxDocuments == Get(data, "documents", <<>>)

\* line 32: the default of doc.get('id', 'unknown')
Unknown == <<"u", "n", "k", "n", "o", "w", "n">>

\* a word count that is the stored value, zero or not
WordCountStored(metadata, main_text) == Get(metadata, "word_count", 0)

\* lines 41-43
WordCountOf(metadata, main_text) ==
    LET word_count == Get(metadata, "word_count", 0)
    IN  IF word_count = 0 /\ main_text # <<>>
        THEN Len(SplitWords(main_text))
        ELSE word_count

\* lines 46-48
ChunkCountOf(metadata, chunks) ==
    LET chunk_count == Get(metadata, "chunk_count", 0)
    IN  IF chunk_count = 0 THEN Len(chunks) ELSE chunk_count

\* lines 32-60
SummaryOf(doc) ==
    LET metadata == Get(doc, "metadata", EmptyDict)
        content == Get(doc, "content", EmptyDict)
    IN  [id |-> Get(doc, "id", Unknown),
         reference |-> Get(doc, "reference", <<>>),
         hebrew_date |-> Get(metadata, "hebrew_date", <<>>),
         gregorian_date |-> Get(metadata, "gregorian_date", <<>>),
         opening_phrase |-> Get(metadata, "opening_phrase", <<>>),
         topics |-> Get(metadata, "topics", <<>>),
         key_concepts |-> Get(metadata, "key_concepts", <<>>),
         word_count |-> WordCountOf(metadata, Get(content, "main_text", <<>>)),
         chunk_count |-> ChunkCountOf(metadata, Get(content, "main_text_chunks", <<>>))]

\* an append that leaves out a record the list already holds
AppendToOnce(d, key, x) ==
    IF InList(LookupOr(d, key, <<>>), x) THEN d ELSE SetItem(d, key, Append(LookupOr(d, key, <<>>), x))

\* lines 66, 84, 96: index[key].append(record)
AppendRecord(d, key, x) == AppendTo(d, key, x)

RECURSIVE AppendEachNonBlank(_, _, _)
\* lines 64-71, 82-88, 94-96: for key in keys: if key.strip(): append
AppendEachNonBlank(index, keys, rec) ==
    IF keys = <<>>
    THEN index
    ELSE AppendEachNonBlank(
             IF Strip(Head(keys)) # <<>> THEN AppendRecord(index, Head(keys), rec) ELSE index,
             Tail(keys), rec)

\* lines 74-79
IndexDates(index, doc_id, hebrew_date, gregorian_date) ==
    LET h == IF hebrew_date # <<>> THEN AppendTo(index, hebrew_date, doc_id) ELSE index
    IN  IF gregorian_date # <<>> THEN AppendTo(h, gregorian_date, doc_id) ELSE h

\* lines 91-93
AllRefs(metadata) ==
    Get(metadata, "biblical_references", <<>>)
    \o Get(metadata, "talmudic_references", <<>>)
    \o Get(metadata, "chassidic_references", <<>>)

RECURSIVE AppendEach(_, _, _)
\* lines 152-161: for each keyword, glossary_index[word_lower].append(record)
AppendEach(index, keys, rec) ==
    IF keys = <<>>
    THEN index
    ELSE AppendEach(AppendTo(index, Head(keys), rec), Tail(keys), rec)

\* lines 130-161: one parsed entry enters the glossary index
IndexGlossaryEntry(index, doc_id, hebrew_date, e) ==
    LET h == IF e.hebrew_term # <<>>
             THEN AppendTo(index, e.hebrew_term,
                           [doc_id |-> doc_id, transliteration |-> e.transliteration,
                            definition |-> e.definition, hebrew_date |-> hebrew_date])
             ELSE index
        t == IF e.transliteration # <<>>
             THEN AppendTo(h, e.transliteration,
                           [doc_id |-> doc_id, hebrew_term |-> e.hebrew_term,
                            definition |-> e.definition, hebrew_date |-> hebrew_date])
             ELSE h
    IN  AppendEach(t, IdxKeywords(e.definition),
                   [doc_id |-> doc_id, hebrew_term |-> e.hebrew_term,
                    full_definition |-> e.definition, hebrew_date |-> hebrew_date])

RECURSIVE IndexGlossary(_, _, _, _)
\* lines 116-161
IndexGlossary(index, doc_id, hebrew_date, parsed) ==
    IF parsed = <<>>
    THEN index
    ELSE IndexGlossary(IndexGlossaryEntry(index, doc_id, hebrew_date, Head(parsed)),
                       doc_id, hebrew_date, Tail(parsed))

\* lines 164-200
Indexes ==
    [document_summary |->
        [total_documents |-> Len(document_summary), documents |-> document_summary],
     topic_index |-> [total_topics |-> Len(topic_index), topics |-> topic_index],
     concept_index |-> [total_concepts |-> Len(concept_index), concepts |-> concept_index],
     date_index |-> [total_dates |-> Len(date_index), dates |-> date_index],
     reference_index |->
        [total_references |-> Len(reference_index), references |-> reference_index],
     opening_phrase_index |->
        [total_phrases |-> Len(opening_phrase_index), phrases |-> opening_phrase_index],
     glossary_index |->
        [total_glossary_terms |-> Len(glossary_index), glossary_terms |-> glossary_index]]

(***************************************************************************)
(* The quick reference report, lines 212-295.                              *)
(***************************************************************************)
NA == <<"N", "/", "A">>

\* line 238
OpeningMax == 50
\* line 248
max_show == 10
\* lines 284, 294
TopShown == 15

DigitChar(d) ==
    CASE d = 0 -> "0" [] d = 1 -> "1" [] d = 2 -> "2" [] d = 3 -> "3" [] d = 4 -> "4"
      [] d = 5 -> "5" [] d = 6 -> "6" [] d = 7 -> "7" [] d = 8 -> "8" [] d = 9 -> "9"

RECURSIVE Str(_)
\* an f-string's rendering of a non-negative int
Str(n) == IF n < 10 THEN <<DigitChar(n)>> ELSE Str(n \div 10) \o <<DigitChar(n % 10)>>

RECURSIVE Join(_, _)
\* sep.join(parts)
Join(parts, sep) ==
    IF parts = <<>> THEN <<>>
    ELSE IF Len(parts) = 1 THEN Head(parts)
    ELSE Head(parts) \o sep \o Join(Tail(parts), sep)

\* xs[:n]
Take(xs, n) == SubSeq(xs, 1, Min(n, Len(xs)))

\* lines 225-234
DateStr(hebrew_date, gregorian_date) ==
    IF hebrew_date # <<>> /\ gregorian_date # <<>>
    THEN hebrew_date \o <<" ", "(">> \o gregorian_date \o <<")">>
    ELSE IF hebrew_date # <<>> THEN hebrew_date
    ELSE IF gregorian_date # <<>> THEN <<"(">> \o gregorian_date \o <<")">>
    ELSE NA

\* lines 236-240
OpeningDisplay(opening) ==
    IF opening # <<>>
    THEN IF Len(opening) > OpeningMax
         THEN SubSeq(opening, 1, OpeningMax) \o <<".", ".", ".">>
         ELSE opening
    ELSE NA

RECURSIVE TopicPairs(_, _, _)
\* lines 252-257, from index i (0-based) on
TopicPairs(topics_to_show, concepts, i) ==
    IF i >= Len(topics_to_show)
    THEN <<>>
    ELSE <<IF i < Len(concepts) /\ concepts[i + 1] # <<>>
           THEN topics_to_show[i + 1] \o <<" ", "(">> \o concepts[i + 1] \o <<")">>
           ELSE topics_to_show[i + 1]>>
         \o TopicPairs(topics_to_show, concepts, i + 1)

\* lines 246-265
TopicsStr(topics, concepts) ==
    IF topics # <<>>
    THEN Join(TopicPairs(Take(topics, max_show), concepts, 0), <<",", " ">>)
         \o (IF Len(topics) > max_show
             THEN <<" ", "(", "+">> \o Str(Len(topics) - max_show)
                  \o <<" ", "m", "o", "r", "e", ")">>
             ELSE <<>>)
    ELSE NA

\* lines 224-269: the block of one document of document_summary
DocumentBlock(doc) ==
    [line |-> "document",
     id |-> doc.id,
     date |-> DateStr(doc.hebrew_date, doc.gregorian_date),
     opening |-> OpeningDisplay(doc.opening_phrase),
     topics |-> TopicsStr(doc.topics, doc.key_concepts),
     words |-> doc.word_count,
     chunks |-> doc.chunk_count]

RECURSIVE InsertByCount(_, _)
\* item goes behind every item whose list is at least as long
InsertByCount(sorted, item) ==
    IF sorted = <<>>
    THEN <<item>>
    ELSE IF Len(Head(sorted).v) >= Len(item.v)
         THEN <<Head(sorted)>> \o InsertByCount(Tail(sorted), item)
         ELSE <<item>> \o sorted

RECURSIVE SortedByCount(_)
\* lines 273, 293: sorted(index.items(), key=lambda x: len(x[1]), reverse=True),
\* a stable sort
SortedByCount(items) ==
    IF items = <<>>
    THEN <<>>
    ELSE InsertByCount(SortedByCount(SubSeq(items, 1, Len(items) - 1)), items[Len(items)])

\* an insert that overwrites
InsertLast(mapping, topic, concept) == SetItem(mapping, topic, concept)

\* lines 281-282, for a topic that has a concept at its index
GuardedInsert(mapping, topic, concept) ==
    IF ~HasKey(mapping, topic) THEN SetItem(mapping, topic, concept) ELSE mapping

RECURSIVE MapTopicsToConcepts(_, _, _, _)
\* lines 280-282, from index i (0-based) on
MapTopicsToConcepts(mapping, doc_topics, doc_concepts, i) ==
    IF i >= Len(doc_topics)
    THEN mapping
    ELSE MapTopicsToConcepts(
             IF i < Len(doc_concepts)
             THEN GuardedInsert(mapping, doc_topics[i + 1], doc_concepts[i + 1])
             ELSE mapping,
             doc_topics, doc_concepts, i + 1)

RECURSIVE TopTopicLines(_, _)
\* lines 284-289
TopTopicLines(shown, mapping) ==
    IF shown = <<>>
    THEN <<>>
    ELSE <<[line |-> "top_topic",
            topic |-> Head(shown).k,
            concept |-> LookupOr(mapping, Head(shown).k, <<>>),
            documents |-> Len(Head(shown).v)]>>
         \o TopTopicLines(Tail(shown), mapping)

RECURSIVE TopConceptLines(_)
\* lines 294-295
TopConceptLines(shown) ==
    IF shown = <<>>
    THEN <<>>
    ELSE <<[line |-> "top_concept",
            concept |-> Head(shown).k,
            documents |-> Len(Head(shown).v)]>>
         \o TopConceptLines(Tail(shown))

IndexInit ==
    /\ InputInit
    /\ ipc = "load"
    /\ doc_i = 0
    /\ document_summary = <<>>
    /\ topic_index = <<>>
    /\ date_index = <<>>
    /\ concept_index = <<>>
    /\ reference_index = <<>>
    /\ opening_phrase_index = <<>>
    /\ glossary_index = <<>>
    /\ index_file = <<>>
    /\ quick_ref = <<>>
    /\ sorted_topics = <<>>
    /\ topic_to_concept = <<>>
    /\ SplitIdle
    /\ GlossIdle

\* lines 14-15: a missing or unparsable file is an unhandled exception
IdxLoadFails ==
    /\ ipc = "load"
    /\ input_state # "ok"
    /\ ipc' = "aborted"
    /\ UNCHANGED <<input_state, data, doc_i, document_summary, topic_index, date_index,
                   concept_index, reference_index, opening_phrase_index, glossary_index,
                   index_file, quick_ref, sorted_topics, topic_to_concept,
                   split_vars, gloss_vars>>

\* lines 13-29
IdxLoad ==
    /\ ipc = "load"
    /\ input_state = "ok"
    /\ ipc' = "index"
    /\ doc_i' = 0
    /\ UNCHANGED <<input_state, data, document_summary, topic_index, date_index,
                   concept_index, reference_index, opening_phrase_index, glossary_index,
                   index_file, quick_ref, sorted_topics, topic_to_concept,
                   split_vars, gloss_vars>>

\* lines 31-161: the loop body, for the next document
IdxIndexDocument ==
    /\ ipc = "index"
    /\ doc_i < Len(IdxDocuments)
    /\ LET doc == IdxDocuments[doc_i + 1]
           doc_id == Get(doc, "id", Unknown)
           metadata == Get(doc, "metadata", EmptyDict)
           content == Get(doc, "content", EmptyDict)
           reference == Get(doc, "reference", <<>>)
           hebrew_date == Get(metadata, "hebrew_date", <<>>)
           gregorian_date == Get(metadata, "gregorian_date", <<>>)
           opening == Get(metadata, "opening_phrase", <<>>)
           topics == Get(metadata, "topics", <<>>)
       IN  /\ document_summary' = Append(document_summary, SummaryOf(doc))
           /\ topic_index' =
                  AppendEachNonBlank(topic_index, topics,
                      [doc_id |-> doc_id, reference |-> reference,
                       hebrew_date |-> hebrew_date, opening_phrase |-> opening])
           /\ date_index' = IndexDates(date_index, doc_id, hebrew_date, gregorian_date)
           /\ concept_index' =
                  AppendEachNonBlank(concept_index, Get(metadata, "key_concepts", <<>>),
                      [doc_id |-> doc_id, reference |-> reference, topics |-> topics])
           /\ reference_index' = AppendEachNonBlank(reference_index, AllRefs(metadata), doc_id)
           /\ opening_phrase_index' =
                  IF Strip(opening) # <<>>
                  THEN AppendTo(opening_phrase_index, opening,
                           [doc_id |-> doc_id, hebrew_date |-> hebrew_date, topics |-> topics])
                  ELSE opening_phrase_index
           /\ glossary_index' =
                  IndexGlossary(glossary_index, doc_id, hebrew_date,
                                IdxParseGlossary(Get(content, "glossary", <<>>)))
    /\ doc_i' = doc_i + 1
    /\ UNCHANGED <<input_state, data, ipc, index_file, quick_ref, sorted_topics,
                   topic_to_concept, split_vars, gloss_vars>>

\* lines 164-206: maamarim_search_index.json is written
IdxSaveIndexes ==
    /\ ipc = "index"
    /\ doc_i = Len(IdxDocuments)
    /\ index_file' = <<Indexes>>
    /\ ipc' = "header"
    /\ UNCHANGED <<input_state, data, doc_i, document_summary, topic_index, date_index,
                   concept_index, reference_index, opening_phrase_index, glossary_index,
                   quick_ref, sorted_topics, topic_to_concept, split_vars, gloss_vars>>

\* lines 212-218: the report is opened and its first lines written
ReportTotals ==
    <<[line |-> "title"],
      [line |-> "totals", documents |-> Len(document_summary),
       topics |-> Len(topic_index), concepts |-> Len(concept_index)]>>

\* line 219 on an input without collection_metadata: data['collection_metadata']
\* raises KeyError, the with block closes the report as far as it is written
IdxReportHeaderFails ==
    /\ ipc = "header"
    /\ "collection_metadata" \notin DOMAIN data
    /\ quick_ref' = ReportTotals
    /\ ipc' = "aborted"
    /\ UNCHANGED <<input_state, data, doc_i, document_summary, topic_index, date_index,
                   concept_index, reference_index, opening_phrase_index, glossary_index,
                   index_file, sorted_topics, topic_to_concept, split_vars, gloss_vars>>

\* lines 212-222
IdxReportHeader ==
    /\ ipc = "header"
    /\ "collection_metadata" \in DOMAIN data
    /\ quick_ref' =
           Append(ReportTotals,
                  [line |-> "date_range",
                   text |-> Get(data.collection_metadata, "date_range", Unknown)])
    /\ doc_i' = 0
    /\ ipc' = "summary"
    /\ UNCHANGED <<input_state, data, document_summary, topic_index, date_index,
                   concept_index, reference_index, opening_phrase_index, glossary_index,
                   index_file, sorted_topics, topic_to_concept, split_vars, gloss_vars>>

\* lines 223-269: the block of the next document
IdxReportDocument ==
    /\ ipc = "summary"
    /\ doc_i < Len(document_summary)
    /\ quick_ref' = Append(quick_ref, DocumentBlock(document_summary[doc_i + 1]))
    /\ doc_i' = doc_i + 1
    /\ UNCHANGED <<input_state, data, ipc, document_summary, topic_index, date_index,
                   concept_index, reference_index, opening_phrase_index, glossary_index,
                   index_file, sorted_topics, topic_to_concept, split_vars, gloss_vars>>

\* lines 271-276
IdxSortTopics ==
    /\ ipc = "summary"
    /\ doc_i = Len(document_summary)
    /\ sorted_topics' = SortedByCount(topic_index)
    /\ topic_to_concept' = <<>>
    /\ doc_i' = 0
    /\ ipc' = "concepts"
    /\ UNCHANGED <<input_state, data, document_summary, topic_index, date_index,
                   concept_index, reference_index, opening_phrase_index, glossary_index,
                   index_file, quick_ref, split_vars, gloss_vars>>

\* lines 277-282: the next document's topics enter topic_to_concept
IdxMapTopicConcepts ==
    /\ ipc = "concepts"
    /\ doc_i < Len(IdxDocuments)
    /\ LET metadata == Get(IdxDocuments[doc_i + 1], "metadata", EmptyDict)
       IN  topic_to_concept' =
               MapTopicsToConcepts(topic_to_concept, Get(metadata, "topics", <<>>),
                                   Get(metadata, "key_concepts", <<>>), 0)
    /\ doc_i' = doc_i + 1
    /\ UNCHANGED <<input_state, data, ipc, document_summary, topic_index, date_index,
                   concept_index, reference_index, opening_phrase_index, glossary_index,
                   index_file, quick_ref, sorted_topics, split_vars, gloss_vars>>

\* lines 284-295: TOP TOPICS, TOP CONCEPTS, and the report is closed
IdxReportTop ==
    /\ ipc = "concepts"
    /\ doc_i = Len(IdxDocuments)
    /\ quick_ref' =
           quick_ref
           \o TopTopicLines(Take(sorted_topics, TopShown), topic_to_concept)
           \o TopConceptLines(Take(SortedByCount(concept_index), TopShown))
    /\ ipc' = "done"
    /\ UNCHANGED <<input_state, data, doc_i, document_summary, topic_index, date_index,
                   concept_index, reference_index, opening_phrase_index, glossary_index,
                   index_file, sorted_topics, topic_to_concept, split_vars, gloss_vars>>

IndexNext ==
    \/ IdxLoadFails
    \/ IdxLoad
    \/ IdxIndexDocument
    \/ IdxSaveIndexes
    \/ IdxReportHeaderFails
    \/ IdxReportHeader
    \/ IdxReportDocument
    \/ IdxSortTopics
    \/ IdxMapTopicConcepts
    \/ IdxReportTop

IndexSpec == IndexInit /\ [][IndexNext]_vars

(***************************************************************************)
(* Properties of the Indexer.                                              *)
(***************************************************************************)
\* how many documents the loop of line 31 has processed
Indexed == IF ipc = "load" THEN 0 ELSE IF ipc = "index" THEN doc_i ELSE Len(IdxDocuments)

\* the number of maximal runs of non-whitespace characters of s
TokenCount(s) ==
    Cardinality({i \in 1..Len(s) :
                    s[i] \notin Whitespace /\ (i = 1 \/ s[i - 1] \in Whitespace)})

\* C3: after the loop has processed k documents document_summary has k
\* entries, in document order; the entry of a document has its id (or
\* 'unknown'), word_count = metadata.word_count when that is present and not
\* zero, else the number of whitespace-separated tokens of its own main_text
\* (0 when absent), and chunk_count = metadata.chunk_count when present and
\* not zero, else the length of its own main_text_chunks.
C3_DocumentSummary ==
    /\ Len(document_summary) = Indexed
    /\ \A k \in 1..Len(document_summary) :
          LET doc == IdxDocuments[k]
              metadata == IF "metadata" \in DOMAIN doc THEN doc.metadata ELSE EmptyDict
              content == IF "content" \in DOMAIN doc THEN doc.content ELSE EmptyDict
              main_text == IF "main_text" \in DOMAIN content THEN content.main_text ELSE <<>>
              chunks == IF "main_text_chunks" \in DOMAIN content
                        THEN content.main_text_chunks ELSE <<>>
              entry == document_summary[k]
          IN  /\ entry.id = IF "id" \in DOMAIN doc THEN doc.id ELSE Unknown
              /\ entry.word_count =
                    IF "word_count" \in DOMAIN metadata /\ metadata.word_count # 0
                    THEN metadata.word_count
                    ELSE TokenCount(main_text)
              /\ entry.chunk_count =
                    IF "chunk_count" \in DOMAIN metadata /\ metadata.chunk_count # 0
                    THEN metadata.chunk_count
                    ELSE Len(chunks)

\* the loop has processed a document whose zero word_count fell back to the
\* three tokens of its main_text, then a document without any facet field
C3_Witness ==
    /\ ipc = "index"
    /\ doc_i = 2
    /\ IdxDocuments[1] = DocB
    /\ IdxDocuments[2] = DocC
    /\ document_summary[1].word_count = 3
    /\ document_summary[1].chunk_count = 1
    /\ document_summary[2].word_count = 0

\* C4: in no run is maamarim_search_index.json written and the run aborted;
\* a run that ends normally has written both files.
C4_OutputAtomicity ==
    /\ ~(index_file # <<>> /\ ipc = "aborted")
    /\ ipc = "done" => index_file # <<>> /\ quick_ref # <<>>

\* the three indexes of C8
AccumulatingIndexes == {"topic", "concept", "reference"}

IndexNamed(f) ==
    CASE f = "topic" -> topic_index
      [] f = "concept" -> concept_index
      [] f = "reference" -> reference_index

\* the values of index f that document doc lists, in its order
ValuesListed(f, doc) ==
    LET metadata == IF "metadata" \in DOMAIN doc THEN doc.metadata ELSE EmptyDict
        field(name) == IF name \in DOMAIN metadata THEN metadata[name] ELSE <<>>
    IN  CASE f = "topic" -> field("topics")
          [] f = "concept" -> field("key_concepts")
          [] f = "reference" ->
                field("biblical_references") \o field("talmudic_references")
                \o field("chassidic_references")

\* the record index f holds for an occurrence in document doc
RecordStored(f, doc) ==
    LET metadata == IF "metadata" \in DOMAIN doc THEN doc.metadata ELSE EmptyDict
        field(name, default) == IF name \in DOMAIN metadata THEN metadata[name] ELSE default
        doc_id == IF "id" \in DOMAIN doc THEN doc.id ELSE Unknown
        reference == IF "reference" \in DOMAIN doc THEN doc.reference ELSE <<>>
    IN  CASE f = "topic" ->
                [doc_id |-> doc_id, reference |-> reference,
                 hebrew_date |-> field("hebrew_date", <<>>),
                 opening_phrase |-> field("opening_phrase", <<>>)]
          [] f = "concept" ->
                [doc_id |-> doc_id, reference |-> reference,
                 topics |-> field("topics", <<>>)]
          [] f = "reference" -> doc_id

RECURSIVE OccurrencesIn(_, _, _)
\* the non-blank values of ValuesListed(f, doc) from index i on, each with
\* the position p of its document
OccurrencesIn(values, p, i) ==
    IF i > Len(values)
    THEN <<>>
    ELSE (IF Strip(values[i]) # <<>> THEN <<[p |-> p, v |-> values[i]]>> ELSE <<>>)
         \o OccurrencesIn(values, p, i + 1)

RECURSIVE Occurrences(_, _)
\* the non-blank occurrences of index f in the first n documents, in
\* document encounter order
Occurrences(f, n) ==
    IF n = 0
    THEN <<>>
    ELSE Occurrences(f, n - 1) \o OccurrencesIn(ValuesListed(f, IdxDocuments[n]), n, 1)

RECURSIVE RecordsOf(_, _, _)
\* the records of the occurrences of value v among occs, in order
RecordsOf(f, occs, v) ==
    IF occs = <<>>
    THEN <<>>
    ELSE (IF Head(occs).v = v THEN <<RecordStored(f, IdxDocuments[Head(occs).p])>> ELSE <<>>)
         \o RecordsOf(f, Tail(occs), v)

\* the place of the first occurrence of v in occs
FirstPlace(occs, v) == CHOOSE i \in 1..Len(occs) : occs[i].v = v /\ \A j \in 1..(i - 1) : occs[j].v # v

\* index f holds exactly the occurrences of the processed documents
Accumulated(f) ==
    LET index == IndexNamed(f)
        occs == Occurrences(f, Indexed)
    IN  /\ \A o \in 1..Len(occs) : HasKey(index, occs[o].v)
        /\ \A i \in 1..Len(index) :
              /\ Strip(index[i].k) # <<>>
              /\ \E o \in 1..Len(occs) : occs[o].v = index[i].k
              /\ index[i].v = RecordsOf(f, occs, index[i].k)
        /\ \A i, j \in 1..Len(index) :
              i < j => FirstPlace(occs, index[i].k) < FirstPlace(occs, index[j].k)

\* every key of old is at the same place in new, its list a prefix of the
\* list new holds
AppendOnly(old, new) ==
    /\ Len(old) <= Len(new)
    /\ \A i \in 1..Len(old) :
          /\ new[i].k = old[i].k
          /\ Len(old[i].v) <= Len(new[i].v)
          /\ old[i].v = SubSeq(new[i].v, 1, Len(old[i].v))

C8_Accumulated == \A f \in AccumulatingIndexes : Accumulated(f)

C8_AppendOnly ==
    /\ AppendOnly(topic_index, topic_index')
    /\ AppendOnly(concept_index, concept_index')
    /\ AppendOnly(reference_index, reference_index')

\* C8: after any prefix of the documents, each of the topic, concept and
\* reference indexes has exactly the non-blank values of the processed
\* documents as keys, in order of first occurrence, the list of a key holds
\* one record per occurrence (none merged, the three reference categories
\* together) in document encounter order, and every step only appends:
\* keys keep their place and lists only grow at the end.
C8_FacetAccumulation == []C8_Accumulated /\ [][C8_AppendOnly]_vars

\* reference r is listed twice by the first document and once by the second:
\* three records
C8_Witness ==
    /\ ipc = "index"
    /\ doc_i = 2
    /\ IdxDocuments[1] = DocA
    /\ IdxDocuments[2] = DocB
    /\ Lookup(reference_index, <<"r">>) = << <<"a">>, <<"a">>, <<"b">> >>
    /\ Len(Lookup(topic_index, <<"t">>)) = 3

\* how many documents the pass of line 277 has processed
Paired == IF ipc = "concepts" THEN doc_i ELSE IF ipc = "done" THEN Len(IdxDocuments) ELSE 0

TopicsOfDoc(p) ==
    LET doc == IdxDocuments[p]
        metadata == IF "metadata" \in DOMAIN doc THEN doc.metadata ELSE EmptyDict
    IN  IF "topics" \in DOMAIN metadata THEN metadata.topics ELSE <<>>

ConceptsOfDoc(p) ==
    LET doc == IdxDocuments[p]
        metadata == IF "metadata" \in DOMAIN doc THEN doc.metadata ELSE EmptyDict
    IN  IF "key_concepts" \in DOMAIN metadata THEN metadata.key_concepts ELSE <<>>

\* the places <<p, i>> where topic stands in the first n documents
PlacesOf(topic, n) ==
    UNION {{<<p, i>> : i \in {j \in 1..Len(TopicsOfDoc(p)) : TopicsOfDoc(p)[j] = topic}} :
              p \in 1..n}

\* document order, then position
Before(a, b) == a[1] < b[1] \/ (a[1] = b[1] /\ a[2] <= b[2])

First(places) == CHOOSE a \in places : \A b \in places : Before(a, b)

\* the topics of the first n documents
TopicsSeen(n) == UNION {{TopicsOfDoc(p)[i] : i \in 1..Len(TopicsOfDoc(p))} : p \in 1..n}

\* C10 as claimed: topic_to_concept holds, for each topic, the concept at
\* the same index in the document where the topic is first encountered (and
\* nothing when that document has no concept at that index).
C10_FirstEncounter ==
    \A topic \in TopicsSeen(Paired) :
        LET first == First(PlacesOf(topic, Paired))
        IN  IF first[2] <= Len(ConceptsOfDoc(first[1]))
            THEN /\ HasKey(topic_to_concept, topic)
                 /\ Lookup(topic_to_concept, topic) = ConceptsOfDoc(first[1])[first[2]]
            ELSE ~HasKey(topic_to_concept, topic)

\* the places of topic that have a concept at the same index
PlacesWithConcept(topic, n) ==
    {pi \in PlacesOf(topic, n) : pi[2] <= Len(ConceptsOfDoc(pi[1]))}

C10_FirstPlaceWithConcept ==
    /\ \A topic \in TopicsSeen(Paired) :
          LET places == PlacesWithConcept(topic, Paired)
          IN  IF places # {}
              THEN /\ HasKey(topic_to_concept, topic)
                   /\ Lookup(topic_to_concept, topic) =
                          ConceptsOfDoc(First(places)[1])[First(places)[2]]
              ELSE ~HasKey(topic_to_concept, topic)
    /\ \A i \in 1..Len(topic_to_concept) : topic_to_concept[i].k \in TopicsSeen(Paired)
    /\ \A i, j \in 1..Len(topic_to_concept) :
          topic_to_concept[i].k = topic_to_concept[j].k => i = j

C10_NeverOverwritten ==
    \A i \in 1..Len(topic_to_concept) :
        /\ i <= Len(topic_to_concept')
        /\ topic_to_concept'[i] = topic_to_concept[i]

\* C10 amended: topic_to_concept holds, for each topic, the concept at the
\* same index at the first place (document order, then position) where the
\* topic stands and a concept exists at that index, which need not be in the
\* document where the topic is first encountered; a topic with no such place
\* has no entry; once a topic has an entry no later step changes it.
C10_RepresentativeConcept == []C10_FirstPlaceWithConcept /\ [][C10_NeverOverwritten]_vars

\* topic u is first encountered in a document with no concept at its index
\* and has the concept of a later document
C10_Witness ==
    /\ ipc = "done"
    /\ IdxDocuments = <<DocA, DocD>>
    /\ Lookup(topic_to_concept, <<"u">>) = <<"e">>
    /\ Lookup(topic_to_concept, <<"t">>) = <<"c">>

\* the TOP TOPICS lines of the report
TopTopicsPrinted == SelectSeq(quick_ref, LAMBDA l : l.line = "top_topic")

\* the number of documents whose topics list holds topic
DocumentsReferencing(topic) ==
    Cardinality({p \in 1..Len(IdxDocuments) :
                    \E i \in 1..Len(TopicsOfDoc(p)) : TopicsOfDoc(p)[i] = topic})

\* C11: in the finished report the number printed for every topic under TOP
\* TOPICS is the number of documents whose topics list holds that topic, and
\* the topics stand in descending order of that number, topics with the same
\* number in order of first occurrence.
C11_TopicFrequency ==
    ipc = "done" =>
        LET printed == TopTopicsPrinted
            n == Len(IdxDocuments)
        IN  /\ \A i \in 1..Len(printed) :
                  printed[i].documents = DocumentsReferencing(printed[i].topic)
            /\ \A i, j \in 1..Len(printed) :
                  i < j =>
                      \/ DocumentsReferencing(printed[i].topic)
                             > DocumentsReferencing(printed[j].topic)
                      \/ /\ DocumentsReferencing(printed[i].topic)
                                = DocumentsReferencing(printed[j].topic)
                         /\ Before(First(PlacesOf(printed[i].topic, n)),
                                   First(PlacesOf(printed[j].topic, n)))

\* the six facet indexes
SixIndexes ==
    <<topic_index, concept_index, date_index, reference_index, opening_phrase_index,
      glossary_index>>

\* the records the keyword expansion of lines 152-161 appends
FromKeyword(rec) == "full_definition" \in DOMAIN rec

\* C12: at every point no facet index (topic, concept, date, reference,
\* opening phrase, glossary) has the empty string as a key, and every key
\* of the glossary index that holds a record of the keyword expansion is
\* non-empty, lower-case and without a trailing '.', ',', ';' or ':'.
C12_NonEmptyKeys ==
    /\ \A x \in 1..Len(SixIndexes) :
          \A i \in 1..Len(SixIndexes[x]) : SixIndexes[x][i].k # <<>>
    /\ \A i \in 1..Len(glossary_index) :
          LET key == glossary_index[i].k
          IN  (\E r \in 1..Len(glossary_index[i].v) : FromKeyword(glossary_index[i].v[r]))
                  => /\ key # <<>>
                     /\ key = Lower(key)
                     /\ key[Len(key)] \notin {".", ",", ";", ":"}

====
